---- MODULE Spec2Model ----
(***************************************************************************)
(* Model of outbound_vapi_caller.py: the bounded-concurrency dispatch of   *)
(* one POST /call per CSV row (process_calls / make_vapi_call).            *)
(*                                                                         *)
(* Strings the program builds or compares (response bodies, error details) *)
(* are sequences of one-character strings, so that formatting is computed. *)
(* Phone numbers and call ids are only stored, never inspected: they are   *)
(* plain strings.                                                          *)
(***************************************************************************)
EXTENDS Integers, Sequences, FiniteSets, TLC

\* ------------------------------------------------------------------ bounds
\* Longest batch (number of CSV rows) explored.
MaxRows == 3
\* Largest MAX_CONCURRENT_CALLS explored (the smallest explored is -1).
MaxM == 2

\* Python's None.
None == "None"

\* ------------------------------------------------------------------ inputs
\* Values of the phone_number column.
Phones == {"+15551234567", "+15557654321"}

\* Batches: for every length up to MaxRows, the rows of a file that repeats
\* one number and of a file that alternates two (so that distinct rows with
\* equal and with different numbers both occur). A row is reduced to its
\* phone_number; the other columns are passed through in the payload only.
RowLists == {[i \in 1..n |-> "+15551234567"] : n \in 0..MaxRows}
            \cup {[i \in 1..n |-> IF i % 2 = 1 THEN "+15551234567" ELSE "+15557654321"] : n \in 0..MaxRows}

\* Values MAX_CONCURRENT_CALLS may be set to ("Or any integer you want").
ConcurrencyValues == -1..MaxM

\* ----------------------------------------------------------- response text
T_callId == <<"{","\"","c","a","l","l","I","d","\"",":","\"","a","b","c","1","2","3","\"","}">>
T_empty == <<"{","}">>
T_null == <<"{","\"","c","a","l","l","I","d","\"",":","n","u","l","l","}">>
T_error == <<"s","e","r","v","e","r"," ","e","r","r","o","r">>
T_list == <<"[","]">>

\* Exception messages (str(e)).
S_Timeout == <<"T","i","m","e","o","u","t">>
S_disconnected == <<"S","e","r","v","e","r"," ","d","i","s","c","o","n","n","e","c","t","e","d">>
S_sockTimeout == <<"T","i","m","e","o","u","t"," ","o","n"," ","r","e","a","d","i","n","g"," ","d","a","t","a"," ","f","r","o","m"," ","s","o","c","k","e","t">>
S_mimetype == <<"u","n","e","x","p","e","c","t","e","d"," ","m","i","m","e","t","y","p","e">>
S_decode == <<"E","x","p","e","c","t","i","n","g"," ","v","a","l","u","e">>
S_noGet == <<"n","o"," ","a","t","t","r","i","b","u","t","e"," ","g","e","t">>
S_boom == <<"b","o","o","m">>
S_empty == <<>>

\* ------------------------------------------------------------- exceptions
\* An exception is [type, msg]; Bases gives the classes an exception type is
\* an instance of, as the except clauses of make_vapi_call test them.
Bases(type) ==
    CASE type = "ClientConnectionError" -> {"ClientError", "Exception", "BaseException"}
      [] type = "ContentTypeError" -> {"ClientError", "Exception", "BaseException"}
      [] type = "TimeoutError" -> {"TimeoutError", "Exception", "BaseException"}
      [] type = "JSONDecodeError" -> {"Exception", "BaseException"}
      [] type = "AttributeError" -> {"Exception", "BaseException"}
      [] type = "KeyError" -> {"Exception", "BaseException"}
      [] type = "RuntimeError" -> {"Exception", "BaseException"}
      [] OTHER -> {"BaseException"}

isinstance(e, cls) == cls \in Bases(e.type)

Exc(type, msg) == [type |-> type, msg |-> msg]

\* str(e)
str(e) == e.msg

\* ------------------------------------------------------------ HTTP replies
\* A response body: its raw text and what the JSON decoder makes of it
\* ("object" with its members, another JSON "value", or "invalid" text).
Body(text, kind, members) == [text |-> text, kind |-> kind, members |-> members]

B_callId == Body(T_callId, "object", [callId |-> "abc123"])
B_empty == Body(T_empty, "object", <<>>)
B_null == Body(T_null, "object", [callId |-> None])
B_error == Body(T_error, "invalid", <<>>)
B_list == Body(T_list, "value", <<>>)

Response(status, ctype, body) == [kind |-> "response", status |-> status, ctype |-> ctype, body |-> body]

Raised(e) == [kind |-> "raise", exc |-> e]

\* What session.post(...) and the reading of the reply can produce for one
\* call: a response, or an exception raised inside the try block.
StatusCodes == {199, 200, 201, 204, 299, 300, 404, 500}
ContentTypes == {"application/json", "text/plain"}
Bodies == {B_callId, B_empty, B_null, B_error, B_list}
Exceptions == {Exc("ClientConnectionError", S_disconnected),
               Exc("ClientConnectionError", S_sockTimeout),
               Exc("ClientConnectionError", S_empty),
               Exc("TimeoutError", S_empty),
               Exc("RuntimeError", S_boom)}

AllOutcomes == {Response(st, ct, b) : st \in StatusCodes, ct \in ContentTypes, b \in Bodies}
               \cup {Raised(e) : e \in Exceptions}

\* One outcome per branch of make_vapi_call, for the concurrent batches.
Outcomes == {Response(201, "application/json", B_callId),
             Response(200, "application/json", B_empty),
             Response(500, "text/plain", B_error),
             Response(200, "text/plain", B_error),
             Raised(Exc("ClientConnectionError", S_disconnected)),
             Raised(Exc("TimeoutError", S_empty)),
             Raised(Exc("RuntimeError", S_boom))}

\* --------------------------------------------------------- make_vapi_call
Digit(d) == CASE d = 0 -> "0" [] d = 1 -> "1" [] d = 2 -> "2" [] d = 3 -> "3" [] d = 4 -> "4"
              [] d = 5 -> "5" [] d = 6 -> "6" [] d = 7 -> "7" [] d = 8 -> "8" [] d = 9 -> "9"

\* f"{n}" for an integer n >= 0.
RECURSIVE format_int(_)
format_int(n) == IF n < 10 THEN <<Digit(n)>> ELSE format_int(n \div 10) \o <<Digit(n % 10)>>

\* f"{resp.status} {text}"
format_error(status, text) == format_int(status) \o <<" ">> \o text

\* Bug variant: the upper bound of the success range taken as inclusive.
is_error_status_300_ok(status) == status < 200 \/ status > 300

\* resp.status < 200 or resp.status >= 300
is_error_status(status) == status < 200 \/ status >= 300

\* await resp.json(): the decoded body, or the exception it raises.
resp_json(resp) ==
    IF resp.ctype # "application/json" THEN Raised(Exc("ContentTypeError", S_mimetype))
    ELSE IF resp.body.kind = "invalid" THEN Raised(Exc("JSONDecodeError", S_decode))
    ELSE [kind |-> "data", data |-> resp.body]

\* Bug variant: data['callId'], which raises KeyError for an absent key.
data_subscript(data, key) ==
    IF data.kind # "object" THEN Raised(Exc("AttributeError", S_noGet))
    ELSE IF key \notin DOMAIN data.members THEN Raised(Exc("KeyError", S_empty))
    ELSE [kind |-> "value", value |-> data.members[key]]

\* data.get('callId')
data_get(data, key) ==
    IF data.kind # "object" THEN Raised(Exc("AttributeError", S_noGet))
    ELSE [kind |-> "value",
          value |-> IF key \in DOMAIN data.members THEN data.members[key] ELSE None]

\* No exception pending.
NoExc == Exc("none", <<>>)

\* What a piece of code did: the appends it made to results, in order, and the
\* exception it ended with (NoExc when it ended normally).
Effect(appends, exc) == [appends |-> appends, exc |-> exc]

\* results['success'].append({'phone_number': ..., 'callId': ...})
Append_success(phone_number, call_id) ==
    [list |-> "success", entry |-> [phone_number |-> phone_number, callId |-> call_id]]

\* results['failed'].append({'phone_number': ..., 'error': ...})
Append_failed(phone_number, error) ==
    [list |-> "failed", entry |-> [phone_number |-> phone_number, error |-> error]]

\* Bug variant: the success is recorded before the body is decoded.
try_body_success_first(phone_number, resp) ==
    IF is_error_status(resp.status)
    THEN Effect(<<Append_failed(phone_number, format_error(resp.status, resp.body.text))>>, NoExc)
    ELSE LET j == resp_json(resp) IN
         IF j.kind = "raise" THEN Effect(<<Append_success(phone_number, None)>>, j.exc)
         ELSE LET call_id == data_get(j.data, "callId") IN
              IF call_id.kind = "raise" THEN Effect(<<Append_success(phone_number, None)>>, call_id.exc)
              ELSE Effect(<<Append_success(phone_number, call_id.value)>>, NoExc)

\* The body of the try block once the reply has arrived.
try_body(phone_number, resp) ==
    IF is_error_status(resp.status)
    THEN Effect(<<Append_failed(phone_number, format_error(resp.status, resp.body.text))>>, NoExc)
    ELSE LET j == resp_json(resp) IN
         IF j.kind = "raise" THEN Effect(<<>>, j.exc)
         ELSE LET call_id == data_get(j.data, "callId") IN
              IF call_id.kind = "raise" THEN Effect(<<>>, call_id.exc)
              ELSE Effect(<<Append_success(phone_number, call_id.value)>>, NoExc)

\* Bug variant: the timeout clause logs and records nothing.
except_clauses_timeout_unrecorded(phone_number, e) ==
    IF isinstance(e, "ClientError") THEN Effect(<<Append_failed(phone_number, str(e))>>, NoExc)
    ELSE IF isinstance(e, "TimeoutError") THEN Effect(<<>>, NoExc)
    ELSE IF isinstance(e, "Exception") THEN Effect(<<Append_failed(phone_number, str(e))>>, NoExc)
    ELSE Effect(<<>>, e)

\* Bug variant: no "except Exception" clause.
except_clauses_no_catch_all(phone_number, e) ==
    IF isinstance(e, "ClientError") THEN Effect(<<Append_failed(phone_number, str(e))>>, NoExc)
    ELSE IF isinstance(e, "TimeoutError") THEN Effect(<<Append_failed(phone_number, S_Timeout)>>, NoExc)
    ELSE Effect(<<>>, e)

\* Bug variant: the timeout clause records str(e) like the other clauses.
except_clauses_timeout_str(phone_number, e) ==
    IF isinstance(e, "ClientError") THEN Effect(<<Append_failed(phone_number, str(e))>>, NoExc)
    ELSE IF isinstance(e, "TimeoutError") THEN Effect(<<Append_failed(phone_number, str(e))>>, NoExc)
    ELSE IF isinstance(e, "Exception") THEN Effect(<<Append_failed(phone_number, str(e))>>, NoExc)
    ELSE Effect(<<>>, e)

\* The except clauses, in their order; an exception none of them matches
\* stays pending.
except_clauses(phone_number, e) ==
    IF isinstance(e, "ClientError") THEN Effect(<<Append_failed(phone_number, str(e))>>, NoExc)
    ELSE IF isinstance(e, "TimeoutError") THEN Effect(<<Append_failed(phone_number, S_Timeout)>>, NoExc)
    ELSE IF isinstance(e, "Exception") THEN Effect(<<Append_failed(phone_number, str(e))>>, NoExc)
    ELSE Effect(<<>>, e)

\* The try statement of make_vapi_call applied to what the transport
\* produced: the appends made and the exception that escapes, if any.
call_effect(phone_number, o) ==
    LET r == IF o.kind = "response" THEN try_body(phone_number, o) ELSE Effect(<<>>, o.exc) IN
    IF r.exc = NoExc THEN r
    ELSE LET h == except_clauses(phone_number, r.exc) IN Effect(r.appends \o h.appends, h.exc)

\* ------------------------------------------------------------------ state
VARIABLES
    MAX_CONCURRENT_CALLS, \* config['MAX_CONCURRENT_CALLS']
    rows,                 \* the batch: phone_number of each row
    transport,            \* which replies the remote endpoint can give
    pc,                   \* position of process_calls
    semaphore,            \* free permits of the asyncio.Semaphore (_value)
    session,              \* the aiohttp.ClientSession: "none", "open", "closed"
    task,                 \* position of each make_vapi_call coroutine
    results,              \* results['success'], results['failed']
    posts,                \* session.post calls made for each row
    reply,                \* what the transport produced for each row
    appended,             \* the appends to results each coroutine has made
    config,               \* VAPI_API_KEY, VAPI_PHONE_NUMBER_ID, VAPI_WORKFLOW_ID
    fieldnames,           \* the header of the CSV file (reader.fieldnames)
    interrupted,          \* KeyboardInterrupt has been raised in asyncio.run
    exit_code             \* the exit status of the process, None while it runs

\* The state of main() around process_calls.
mainvars == <<config, fieldnames, interrupted, exit_code>>

vars == <<MAX_CONCURRENT_CALLS, rows, transport, pc, semaphore, session, task, results, posts, reply, appended, mainvars>>

Units == DOMAIN rows

\* Nothing produced yet.
NoReply == [kind |-> "none"]

\* Units inside "async with semaphore".
Holding == {u \in Units : task[u] \in {"inflight", "recorded", "raising"}}

\* The settings at the top of the file, all set.
ConfigSet == [VAPI_API_KEY |-> "563b8bbe", VAPI_PHONE_NUMBER_ID |-> "6f60cf66", VAPI_WORKFLOW_ID |-> "54837a4f"]

\* The settings with any of them left empty.
Configs == {[k \in DOMAIN ConfigSet |-> IF k \in m THEN "" ELSE ConfigSet[k]] : m \in SUBSET DOMAIN ConfigSet}

\* Headers of the CSV file, with and without the phone_number column.
Headers == {{"phone_number", "customer_name"}, {"number", "customer_name"}}

\* The program at position entry, nothing done yet.
Begin(entry, cs, hs, ms, rs, tr) ==
    /\ config \in cs
    /\ fieldnames \in hs
    /\ interrupted = FALSE
    /\ exit_code = None
    /\ MAX_CONCURRENT_CALLS \in ms
    /\ rows \in rs
    /\ transport = tr
    /\ pc = entry
    /\ semaphore = 0
    /\ session = "none"
    /\ task = [u \in DOMAIN rows |-> "created"]
    /\ results = [success |-> <<>>, failed |-> <<>>]
    /\ posts = [u \in DOMAIN rows |-> 0]
    /\ reply = [u \in DOMAIN rows |-> NoReply]
    /\ appended = [u \in DOMAIN rows |-> <<>>]

\* process_calls is entered with the given limits, batches and transport.
Start(ms, rs, tr) == Begin("start", {ConfigSet}, {{"phone_number", "customer_name"}}, ms, rs, tr)

\* Batches of up to MaxRows rows; the endpoint gives one reply per branch.
Init == Start(ConcurrencyValues, RowLists, "branches")

\* A single call; the endpoint gives any status, content type and body.
InitCall == Start(-1..1, UNION {[1..n -> Phones] : n \in 0..1}, "all")

\* The whole program, from main(): any settings, header, batch and limit;
\* the endpoint accepts, rejects or times out.
InitMain == Begin("load_config", Configs, Headers, ConcurrencyValues, RowLists, "few")

\* process_calls alone, the endpoint as in InitMain.
InitFew == Start(ConcurrencyValues, RowLists, "few")

\* A success, a rejection and a timeout.
FewOutcomes == {Response(201, "application/json", B_callId),
                Response(500, "text/plain", B_error),
                Raised(Exc("TimeoutError", S_empty))}

Replies == IF transport = "all" THEN AllOutcomes
           ELSE IF transport = "few" THEN FewOutcomes
           ELSE Outcomes

\* ------------------------------------------------------------ process_calls
\* asyncio.Semaphore(value) raises ValueError for value < 0.
Semaphore_ValueError ==
    /\ pc = "start"
    /\ MAX_CONCURRENT_CALLS < 0
    /\ pc' = "error"
    /\ UNCHANGED <<mainvars, MAX_CONCURRENT_CALLS, rows, transport, semaphore, session, task, results, posts, reply, appended>>

\* semaphore = asyncio.Semaphore(config['MAX_CONCURRENT_CALLS']); results = {...}
Semaphore_init ==
    /\ pc = "start"
    /\ MAX_CONCURRENT_CALLS >= 0
    /\ semaphore' = MAX_CONCURRENT_CALLS
    /\ results' = [success |-> <<>>, failed |-> <<>>]
    /\ pc' = "session"
    /\ UNCHANGED <<mainvars, MAX_CONCURRENT_CALLS, rows, transport, session, task, posts, reply, appended>>

\* async with aiohttp.ClientSession() as session:
ClientSession_enter ==
    /\ pc = "session"
    /\ session' = "open"
    /\ pc' = "tasks"
    /\ UNCHANGED <<mainvars, MAX_CONCURRENT_CALLS, rows, transport, semaphore, task, results, posts, reply, appended>>

\* Bug variant: the tasks are awaited after the "async with" of the session.
gather_outside_session ==
    /\ pc = "tasks"
    /\ task' = [u \in Units |-> "waiting"]
    /\ session' = "closed"
    /\ pc' = "gather"
    /\ UNCHANGED <<mainvars, MAX_CONCURRENT_CALLS, rows, transport, semaphore, results, posts, reply, appended>>

\* tasks = [make_vapi_call(...) for row in rows]; asyncio.gather(*tasks)
\* schedules one task per row.
gather_start ==
    /\ pc = "tasks"
    /\ task' = [u \in Units |-> "waiting"]
    /\ pc' = "gather"
    /\ UNCHANGED <<mainvars, MAX_CONCURRENT_CALLS, rows, transport, semaphore, session, results, posts, reply, appended>>

\* Bug variant: waiting for the first task to finish (FIRST_COMPLETED).
gather_first_completed == IF \E u \in Units : task[u] = "raised" THEN "raised"
                          ELSE IF \E u \in Units : task[u] = "done" THEN "done"
                          ELSE "pending"

\* Bug variant: waiting on an empty set of tasks is an error (asyncio.wait).
gather_empty_raises == IF Units = {} \/ \E u \in Units : task[u] = "raised" THEN "raised"
                       ELSE IF \A u \in Units : task[u] = "done" THEN "done"
                       ELSE "pending"

\* gather is over: every task has finished, or one has raised.
gather_over == IF \E u \in Units : task[u] = "raised" THEN "raised"
               ELSE IF \A u \in Units : task[u] = "done" THEN "done"
               ELSE "pending"

\* await asyncio.gather(*tasks) resumes; the session is closed on the way out
\* and process_calls returns results, or the task's exception propagates.
gather_resume ==
    /\ pc = "gather"
    /\ gather_over # "pending"
    /\ session' = "closed"
    /\ pc' = IF gather_over = "done" THEN "returned" ELSE "error"
    /\ UNCHANGED <<mainvars, MAX_CONCURRENT_CALLS, rows, transport, semaphore, task, results, posts, reply, appended>>

\* ----------------------------------------------------------- make_vapi_call
\* Bug variant: a permit handed out at zero.
can_acquire_at_zero(value) == value >= 0

\* Bug variant: a cancellation request is ignored.
must_cancel_ignored(u) == FALSE

\* Task.cancel() has been called on the task of unit u and the task has not
\* ended: its next step raises CancelledError instead of going on.
must_cancel(u) == interrupted

\* Bug variant: calls go out in waves, the next one when all permits are back.
can_acquire_all_free(value) == value > 0 /\ value = MAX_CONCURRENT_CALLS

\* Semaphore.acquire does not block.
can_acquire(value) == value > 0

\* async with semaphore: the permit is taken and session.post(...) is called.
acquire(u) ==
    /\ task[u] = "waiting"
    /\ ~must_cancel(u)
    /\ can_acquire(semaphore)
    /\ semaphore' = semaphore - 1
    /\ posts' = [posts EXCEPT ![u] = @ + 1]
    /\ task' = [task EXCEPT ![u] = "inflight"]
    /\ UNCHANGED <<mainvars, MAX_CONCURRENT_CALLS, rows, transport, pc, session, results, reply, appended>>

\* Bug variant: the list is assigned, not appended to.
apply_appends_overwrite(res, appends) ==
    IF appends = <<>> THEN res
    ELSE [res EXCEPT ![appends[1].list] = <<appends[1].entry>>]

RECURSIVE apply_appends(_, _)
apply_appends(res, appends) ==
    IF appends = <<>> THEN res
    ELSE LET a == Head(appends) IN
         apply_appends([res EXCEPT ![a.list] = Append(@, a.entry)], Tail(appends))

\* Bug variant: the try statement is outside "async with semaphore": the
\* permit is given back when the reply arrives, the outcome recorded after.
on_reply_release_first(u, o) ==
    LET eff == call_effect(rows[u], o) IN
    /\ task[u] = "inflight"
    /\ ~must_cancel(u)
    /\ reply' = [reply EXCEPT ![u] = o]
    /\ semaphore' = semaphore + 1
    /\ results' = apply_appends(results, eff.appends)
    /\ appended' = [appended EXCEPT ![u] = @ \o eff.appends]
    /\ task' = [task EXCEPT ![u] = IF eff.exc = NoExc THEN "done" ELSE "raised"]
    /\ UNCHANGED <<mainvars, MAX_CONCURRENT_CALLS, rows, transport, pc, session, posts>>

\* The reply (or the exception) arrives and the try statement runs.
on_reply(u, o) ==
    LET eff == call_effect(rows[u], o) IN
    /\ task[u] = "inflight"
    /\ ~must_cancel(u)
    /\ reply' = [reply EXCEPT ![u] = o]
    /\ results' = apply_appends(results, eff.appends)
    /\ appended' = [appended EXCEPT ![u] = @ \o eff.appends]
    /\ task' = [task EXCEPT ![u] = IF eff.exc = NoExc THEN "recorded" ELSE "raising"]
    /\ UNCHANGED <<mainvars, MAX_CONCURRENT_CALLS, rows, transport, pc, semaphore, session, posts>>

\* Bug variant: acquire/release written by hand, the release skipped on the
\* paths that record a failure.
release_skipped_on_failure(u) ==
    /\ task[u] \in {"recorded", "raising"}
    /\ semaphore' = IF \E i \in DOMAIN appended[u] : appended[u][i].list = "failed"
                    THEN semaphore ELSE semaphore + 1
    /\ task' = [task EXCEPT ![u] = IF task[u] = "recorded" THEN "done" ELSE "raised"]
    /\ UNCHANGED <<mainvars, MAX_CONCURRENT_CALLS, rows, transport, pc, session, results, posts, reply, appended>>

\* Bug variant: a call that recorded a failure is queued again, once.
release_retry_failed(u) ==
    /\ task[u] \in {"recorded", "raising"}
    /\ semaphore' = semaphore + 1
    /\ task' = [task EXCEPT ![u] =
                   IF task[u] = "raising" THEN "raised"
                   ELSE IF posts[u] < 2 /\ \E i \in DOMAIN appended[u] : appended[u][i].list = "failed"
                        THEN "waiting" ELSE "done"]
    /\ UNCHANGED <<mainvars, MAX_CONCURRENT_CALLS, rows, transport, pc, session, results, posts, reply, appended>>

\* Bug variant: the permit is never given back.
release_keeps_permit(u) ==
    /\ task[u] \in {"recorded", "raising"}
    /\ task' = [task EXCEPT ![u] = IF task[u] = "recorded" THEN "done" ELSE "raised"]
    /\ UNCHANGED <<mainvars, MAX_CONCURRENT_CALLS, rows, transport, pc, semaphore, session, results, posts, reply, appended>>

\* Leaving "async with semaphore": Semaphore.release, then the coroutine ends.
release(u) ==
    /\ task[u] \in {"recorded", "raising"}
    /\ semaphore' = semaphore + 1
    /\ task' = [task EXCEPT ![u] = IF task[u] = "recorded" THEN "done" ELSE "raised"]
    /\ UNCHANGED <<mainvars, MAX_CONCURRENT_CALLS, rows, transport, pc, session, results, posts, reply, appended>>

\* --------------------------------------------------------------------- main
\* The exit status sys.exit(arg) gives: arg when it is an integer, 1 when it
\* is a message.
sys_exit(arg) == IF arg.kind = "int" THEN arg.value ELSE 1

\* missing = [k for k, v in config.items() if not v and k != 'MAX_CONCURRENT_CALLS']
missing == {k \in DOMAIN config : config[k] = ""}

\* config = load_config()
load_config ==
    /\ pc = "load_config"
    /\ IF missing # {}
       THEN pc' = "exited" /\ exit_code' = sys_exit([kind |-> "str"])
       ELSE pc' = "read_csv" /\ UNCHANGED exit_code
    /\ UNCHANGED <<MAX_CONCURRENT_CALLS, rows, transport, semaphore, session, task, results, posts, reply, appended>>
    /\ UNCHANGED <<config, fieldnames, interrupted>>

\* Bug variant: the header is not checked.
read_csv_unchecked ==
    /\ pc = "read_csv"
    /\ pc' = "check_rows"
    /\ UNCHANGED <<MAX_CONCURRENT_CALLS, rows, transport, semaphore, session, task, results, posts, reply, appended>>
    /\ UNCHANGED <<config, fieldnames, interrupted, exit_code>>

\* rows = read_csv(args.csv_file)
read_csv ==
    /\ pc = "read_csv"
    /\ IF "phone_number" \notin fieldnames
       THEN pc' = "exited" /\ exit_code' = sys_exit([kind |-> "int", value |-> 1])
       ELSE pc' = "check_rows" /\ UNCHANGED exit_code
    /\ UNCHANGED <<MAX_CONCURRENT_CALLS, rows, transport, semaphore, session, task, results, posts, reply, appended>>
    /\ UNCHANGED <<config, fieldnames, interrupted>>

\* if not rows: sys.exit(1); otherwise asyncio.run(process_calls(rows, config))
check_rows ==
    /\ pc = "check_rows"
    /\ IF rows = <<>>
       THEN pc' = "exited" /\ exit_code' = sys_exit([kind |-> "int", value |-> 1])
       ELSE pc' = "start" /\ UNCHANGED exit_code
    /\ UNCHANGED <<MAX_CONCURRENT_CALLS, rows, transport, semaphore, session, task, results, posts, reply, appended>>
    /\ UNCHANGED <<config, fieldnames, interrupted>>

\* The user interrupts the batch: asyncio.run cancels process_calls, and
\* gather cancels every task that has not ended.
KeyboardInterrupt ==
    /\ pc = "gather"
    /\ interrupted' = TRUE
    /\ pc' = "cancelling"
    /\ UNCHANGED <<MAX_CONCURRENT_CALLS, rows, transport, semaphore, session, task, results, posts, reply, appended>>
    /\ UNCHANGED <<config, fieldnames, exit_code>>

\* CancelledError is raised in the task of unit u where it is suspended; no
\* except clause catches it and "async with semaphore" gives the permit back.
cancelled(u) ==
    /\ must_cancel(u)
    /\ task[u] \in {"waiting", "inflight", "recorded", "raising"}
    /\ semaphore' = IF u \in Holding THEN semaphore + 1 ELSE semaphore
    /\ task' = [task EXCEPT ![u] = "cancelled"]
    /\ UNCHANGED <<mainvars, MAX_CONCURRENT_CALLS, rows, transport, pc, session, results, posts, reply, appended>>

\* except KeyboardInterrupt: sys.exit(1)
interrupt_status == sys_exit([kind |-> "int", value |-> 1])

\* Every task has ended: the session is closed, asyncio.run raises
\* KeyboardInterrupt and main exits.
except_KeyboardInterrupt ==
    /\ pc = "cancelling"
    /\ \A u \in Units : task[u] \in {"done", "raised", "cancelled"}
    /\ session' = "closed"
    /\ pc' = "exited"
    /\ exit_code' = interrupt_status
    /\ UNCHANGED <<MAX_CONCURRENT_CALLS, rows, transport, semaphore, task, results, posts, reply, appended>>
    /\ UNCHANGED <<config, fieldnames, interrupted>>

\* Bug variant: a batch with failed calls ends with status 1.
summary_status_counts_failures(res) == IF res.failed # <<>> THEN 1 ELSE 0

\* print_summary(len(rows), results), then main returns.
summary_status(res) == 0

\* process_calls has returned: the summary is printed and the process ends.
print_summary ==
    /\ pc = "returned"
    /\ pc' = "exited"
    /\ exit_code' = summary_status(results)
    /\ UNCHANGED <<MAX_CONCURRENT_CALLS, rows, transport, semaphore, session, task, results, posts, reply, appended>>
    /\ UNCHANGED <<config, fieldnames, interrupted>>

\* An exception left process_calls: main does not catch it and the
\* interpreter ends with a traceback and status 1.
uncaught_exception ==
    /\ pc = "error"
    /\ pc' = "exited"
    /\ exit_code' = 1
    /\ UNCHANGED <<MAX_CONCURRENT_CALLS, rows, transport, semaphore, session, task, results, posts, reply, appended>>
    /\ UNCHANGED <<config, fieldnames, interrupted>>

Next ==
    \/ Semaphore_ValueError
    \/ Semaphore_init
    \/ ClientSession_enter
    \/ gather_start
    \/ gather_resume
    \/ \E u \in Units : acquire(u)
    \/ \E u \in Units : \E o \in Replies : on_reply(u, o)
    \/ \E u \in Units : release(u)

Spec == Init /\ [][Next]_vars

SpecCall == InitCall /\ [][Next]_vars

\* main(): the checks before the batch, the batch, its interruption, the exit.
NextMain ==
    \/ load_config
    \/ read_csv
    \/ check_rows
    \/ Next
    \/ KeyboardInterrupt
    \/ \E u \in Units : cancelled(u)
    \/ except_KeyboardInterrupt
    \/ print_summary
    \/ uncaught_exception

SpecMain == InitMain /\ [][NextMain]_vars

\* process_calls under fair scheduling: the event loop runs a task that can
\* take a step, and every POST ends in a reply, an error or the timeout.
SpecFair == InitFew /\ [][Next]_vars /\ WF_vars(Next)

\* ------------------------------------------------------------ properties
N == Len(rows)

Entries == Len(results.success) + Len(results.failed)

Returned == pc = "returned"

\* The transport raised the exception type for unit u.
RaisedType(u, type) == reply[u].kind = "raise" /\ reply[u].exc.type = type

\* The transport answered unit u with an HTTP response.
Responded(u) == reply[u].kind = "response"

\* C1: when process_calls returns, len(success) + len(failed) equals the
\* number of rows, whatever the limit and the results of the calls.
C1_CountInvariant == Returned => Entries = N

\* A batch of three under contention has returned with successes and failures
\* of several kinds.
C1_Witness ==
    /\ Returned /\ N = 3 /\ MAX_CONCURRENT_CALLS = 2
    /\ Len(results.success) = 1 /\ Len(results.failed) = 2
    /\ \E u \in Units : RaisedType(u, "TimeoutError")
    /\ \E u \in Units : Responded(u) /\ reply[u].status = 500

\* Units whose POST has been sent and not yet answered.
PostsInFlight == {u \in Units : posts[u] > 0 /\ reply[u] = NoReply}

\* C2: with a limit M >= 1, at most M units are inside "async with semaphore"
\* at any time, and at most M POSTs are sent and unanswered; a POST is
\* unanswered only for a unit that holds a permit.
C2_BoundedConcurrency ==
    MAX_CONCURRENT_CALLS >= 1 =>
        /\ Cardinality(Holding) <= MAX_CONCURRENT_CALLS
        /\ Cardinality(PostsInFlight) <= MAX_CONCURRENT_CALLS
        /\ PostsInFlight \subseteq Holding

\* The gate is full and a unit is kept waiting.
C2_Witness ==
    /\ MAX_CONCURRENT_CALLS = 2
    /\ Cardinality(PostsInFlight) = 2
    /\ \E u \in Units : task[u] = "waiting"

\* C3: process_calls returns only when every unit has run to its end with an
\* outcome recorded; it has not returned while a unit waits for a permit or
\* has its POST in flight, also after some unit has failed.
C3_ReturnsAfterAll ==
    Returned => \A u \in Units : /\ task[u] = "done"
                                 /\ reply[u] # NoReply
                                 /\ Len(appended[u]) >= 1

\* Returned from a batch of three in which the first unit failed.
C3_Witness ==
    /\ Returned /\ N = 3
    /\ Len(results.failed) >= 1
    /\ results.failed[1].phone_number = rows[1]
    /\ RaisedType(1, "ClientConnectionError")
    /\ Len(results.success) >= 1

\* Unit u's remote-call step raised an exception that is neither a client
\* error nor a timeout.
Unexpected(u) ==
    /\ reply[u].kind = "raise"
    /\ ~isinstance(reply[u].exc, "ClientError")
    /\ ~isinstance(reply[u].exc, "TimeoutError")

\* C4: a unit whose remote-call step raises an unexpected exception records
\* exactly one failure (its own phone number, the exception's text) and no
\* success, the exception does not leave the unit or process_calls, and the
\* batch still returns with one entry per row.
C4_ExceptionIsolated ==
    /\ \A u \in Units : Unexpected(u) =>
          /\ appended[u] = <<[list |-> "failed",
                              entry |-> [phone_number |-> rows[u], error |-> reply[u].exc.msg]]>>
          /\ task[u] \in {"recorded", "done"}
          /\ \E i \in DOMAIN results.failed : results.failed[i] = appended[u][1].entry
    /\ (MAX_CONCURRENT_CALLS >= 0 => pc # "error")
    /\ (Returned => \A u \in Units : Len(appended[u]) = 1)

\* The batch of three of the specification: unit 2 raises, units 1 and 3
\* succeed, three entries in all.
C4_Witness ==
    /\ Returned /\ N = 3
    /\ Unexpected(2)
    /\ Responded(1) /\ reply[1].status = 201
    /\ Responded(3) /\ reply[3].status = 201
    /\ Len(results.success) = 2 /\ Len(results.failed) = 1

\* C5: with MAX_CONCURRENT_CALLS zero or negative, process_calls ends with an
\* error before any POST: no POST is ever sent, and it is never left without
\* an error and without a step to take, nor does it return a result.
C5_FailsFast ==
    MAX_CONCURRENT_CALLS <= 0 =>
        /\ \A u \in Units : posts[u] = 0
        /\ ~Returned
        /\ (pc = "error" \/ ENABLED Next)

\* Reading a decimal numeral back: the inverse of f"{n}".
DigitValue(c) == CHOOSE d \in 0..9 : Digit(d) = c

IsDigit(c) == \E d \in 0..9 : Digit(d) = c

RECURSIVE parse_int(_)
parse_int(str_) ==
    IF str_ = <<>> THEN 0
    ELSE parse_int(SubSeq(str_, 1, Len(str_) - 1)) * 10 + DigitValue(str_[Len(str_)])

\* text is a numeral for status, one space, then body.
StatusThenBody(text, status, body) ==
    \E k \in 1..Len(text) :
        /\ \A i \in 1..k : IsDigit(text[i])
        /\ parse_int(SubSeq(text, 1, k)) = status
        /\ Len(text) > k /\ text[k + 1] = " "
        /\ SubSeq(text, k + 2, Len(text)) = body

\* The reply to unit u is a response whose body resp.json() decodes to an
\* object.
JsonObjectReply(u) ==
    /\ Responded(u)
    /\ reply[u].ctype = "application/json"
    /\ reply[u].body.kind = "object"

Status2xx(u) == reply[u].status >= 200 /\ reply[u].status < 300

\* C6 (single call, any status, content type and body): a response with a
\* status in [200,300) and a JSON object body is recorded as one success
\* with the row's phone number and, when the body has a callId, that
\* callId; a response with a status outside [200,300) is recorded as one
\* failure with the row's phone number and the status code, a space and the
\* raw body text as error, and as no success.
C6_StatusDecidesOutcome ==
    \A u \in Units : Responded(u) =>
        /\ (Status2xx(u) /\ JsonObjectReply(u)) =>
              /\ results.failed = <<>>
              /\ Len(results.success) = 1
              /\ results.success[1].phone_number = rows[u]
              /\ "callId" \in DOMAIN reply[u].body.members =>
                     results.success[1].callId = reply[u].body.members["callId"]
        /\ ~Status2xx(u) =>
              /\ results.success = <<>>
              /\ Len(results.failed) = 1
              /\ results.failed[1].phone_number = rows[u]
              /\ StatusThenBody(results.failed[1].error, reply[u].status, reply[u].body.text)

\* Status 201 with body {"callId":"abc123"} for +15551234567.
C6_Witness ==
    /\ N = 1 /\ Responded(1) /\ reply[1].status = 201 /\ reply[1].body.text = T_callId
    /\ results.success = <<[phone_number |-> "+15551234567", callId |-> "abc123"]>>
    /\ results.failed = <<>>

\* The reply to unit u is a 2xx response with a JSON object body that has no
\* callId, or a null one.
NoCallId(u) ==
    /\ JsonObjectReply(u) /\ Status2xx(u)
    /\ \/ "callId" \notin DOMAIN reply[u].body.members
       \/ reply[u].body.members["callId"] = None

\* C7 as stated: such a reply is recorded as a success whose callId is the
\* empty string.
C7_EmptyStringCallId ==
    \A u \in Units : NoCallId(u) =>
        /\ Len(results.success) = 1
        /\ results.success[1].callId = ""
        /\ results.failed = <<>>

\* C7 as amended: a 2xx reply whose JSON object has no callId, or a null
\* one, is recorded as one success whose callId is None, and as no failure.
C7_NoneCallId ==
    \A u \in Units : NoCallId(u) =>
        /\ Len(results.success) = 1
        /\ results.success[1].phone_number = rows[u]
        /\ results.success[1].callId = None
        /\ results.failed = <<>>

\* Status 200 with body {} has been recorded.
C7_Witness ==
    /\ N = 1 /\ NoCallId(1) /\ reply[1].body.text = T_empty
    /\ Len(results.success) = 1

\* C8 (single call): a call that times out is recorded as exactly one
\* failure whose error is "Timeout" and as no success, and the error recorded
\* for a client (network) error is never "Timeout".
C8_TimeoutDistinct ==
    \A u \in Units :
        /\ RaisedType(u, "TimeoutError") =>
              /\ results.failed = <<[phone_number |-> rows[u], error |-> S_Timeout]>>
              /\ results.success = <<>>
        /\ (reply[u].kind = "raise" /\ isinstance(reply[u].exc, "ClientError")) =>
              /\ Len(results.failed) = 1
              /\ results.failed[1].error # S_Timeout

\* A timed-out call has been recorded.
C8_Witness ==
    /\ N = 1 /\ RaisedType(1, "TimeoutError")
    /\ Len(results.failed) = 1 /\ task[1] = "done"

\* The semaphore exists.
SemaphoreMade == pc \notin {"start", "error"} \/ (pc = "error" /\ session = "closed")

\* C9: free permits plus units inside "async with semaphore" always equal
\* the limit, whatever way each unit leaves (success, non-2xx, network error,
\* timeout, unexpected exception); when process_calls returns every permit is
\* free.
C9_PermitsConserved ==
    SemaphoreMade =>
        /\ semaphore + Cardinality(Holding) = MAX_CONCURRENT_CALLS
        /\ (Returned => semaphore = MAX_CONCURRENT_CALLS)

\* Returned with all permits free after units left by a non-2xx reply, a
\* timeout and an unexpected exception.
C9_Witness ==
    /\ Returned /\ N = 3 /\ semaphore = 2
    /\ \E u \in Units : Responded(u) /\ reply[u].status = 500
    /\ \E u \in Units : RaisedType(u, "TimeoutError")
    /\ \E u \in Units : RaisedType(u, "RuntimeError")

\* C10: no row is ever sent more than once, and when process_calls returns
\* (limit >= 1) every row has been sent exactly once, failed or not.
C10_OnePostPerRow ==
    /\ \A u \in Units : posts[u] <= 1
    /\ (Returned /\ MAX_CONCURRENT_CALLS >= 1) => \A u \in Units : posts[u] = 1

\* Returned from a batch whose calls all failed, each sent once.
C10_Witness ==
    /\ Returned /\ N = 3 /\ Len(results.failed) = 3
    /\ \A u \in Units : posts[u] = 1

\* The process has ended.
Exited == pc = "exited"

\* A fatal error before the batch: a required setting is empty, the header
\* has no phone_number column, or the file has no rows.
PreBatchError == missing # {} \/ "phone_number" \notin fieldnames \/ rows = <<>>

\* The batch ran to its end: every task finished and process_calls returned.
BatchCompleted ==
    /\ ~interrupted
    /\ session = "closed"
    /\ \A u \in Units : task[u] = "done"

\* C11: the process exits with status 0 whenever the batch ran to its end,
\* however many calls failed, and with status 1 after a missing setting, a
\* file without rows (or without the phone_number column) or an interruption
\* by the user.
C11_ExitCodes ==
    /\ Exited =>
          /\ BatchCompleted => (exit_code = 0 /\ Entries = N)
          /\ (PreBatchError \/ interrupted) => exit_code = 1
    /\ (~Exited /\ (PreBatchError \/ interrupted \/ Returned)) => ENABLED NextMain

\* Exit after a batch of three in which every call failed.
C11_Witness ==
    /\ Exited /\ N = 3 /\ BatchCompleted
    /\ Len(results.failed) = 3
    /\ exit_code = 0

\* C12: after a fatal error before the batch (missing setting, no
\* phone_number column, no rows) process_calls is never entered: no session
\* is opened and no POST is sent, in any state of the run.
C12_NoPostAfterFatalError ==
    PreBatchError =>
        /\ \A u \in Units : posts[u] = 0
        /\ session = "none"
        /\ pc \in {"load_config", "read_csv", "check_rows", "exited"}

\* Exit on a file that has rows but no phone_number column.
C12_Witness ==
    /\ Exited /\ exit_code = 1
    /\ missing = {} /\ "phone_number" \notin fieldnames /\ N = 3
    /\ \A u \in Units : posts[u] = 0

\* C13: once the user has interrupted the batch, no further POST is sent and
\* results is not changed, and the process exits with a status other than 0.
C13_InterruptStopsBatch ==
    /\ [][interrupted => (posts' = posts /\ results' = results)]_vars
    /\ [](Exited /\ interrupted => exit_code # 0)

\* Exit after an interruption that found one outcome recorded, one POST in
\* flight and one unit still waiting for a permit.
C13_Witness ==
    /\ Exited /\ interrupted /\ N = 3
    /\ Entries = 1
    /\ \E u \in Units : task[u] = "cancelled" /\ posts[u] = 0
    /\ \E u \in Units : task[u] = "cancelled" /\ posts[u] = 1 /\ reply[u] = NoReply

\* C14: process_calls on an empty batch with a limit >= 1 returns empty
\* results: it raises nothing, records nothing, never waits for anything and
\* sends no POST.
C14_EmptyBatch ==
    (N = 0 /\ MAX_CONCURRENT_CALLS >= 1) =>
        /\ pc # "error"
        /\ results = [success |-> <<>>, failed |-> <<>>]
        /\ posts = <<>>
        /\ (Returned \/ ENABLED Next)

\* Returned from the empty batch.
C14_Witness == Returned /\ N = 0 /\ MAX_CONCURRENT_CALLS = 2 /\ session = "closed"

\* C15 (fair scheduling, every POST ends): with a limit >= 1 process_calls
\* eventually returns, and every unit that waits for a permit is eventually
\* admitted and eventually runs to its end.
C15_EventuallyReturns ==
    /\ (MAX_CONCURRENT_CALLS >= 1 /\ pc = "start") ~> Returned
    /\ \A u \in 1..MaxRows :
          (MAX_CONCURRENT_CALLS >= 1 /\ u \in Units /\ task[u] = "waiting")
              ~> (u \in Units /\ posts[u] = 1 /\ task[u] = "inflight")
    /\ \A u \in 1..MaxRows :
          (MAX_CONCURRENT_CALLS >= 1 /\ u \in Units /\ task[u] = "inflight")
              ~> (u \in Units /\ task[u] = "done")

\* Three units have gone through a gate of one permit.
C15_Witness ==
    /\ Returned /\ N = 3 /\ MAX_CONCURRENT_CALLS = 1
    /\ \A u \in Units : task[u] = "done"

IsPrefix(a, b) == Len(a) <= Len(b) /\ SubSeq(b, 1, Len(a)) = a

\* The entry is in the list the append names.
Recorded(a) == \E i \in DOMAIN results[a.list] : results[a.list][i] = a.entry

\* C16: in every state each row has at most one entry in success and failed
\* together, the entry carries the row's phone number and is in its list, the
\* lists hold nothing else, and a step only ever appends to the lists:
\* entries are never removed, replaced or reordered.
C16_OneOutcomePerRow ==
    /\ [](\A u \in Units :
            /\ Len(appended[u]) <= 1
            /\ \A i \in DOMAIN appended[u] :
                  appended[u][i].entry.phone_number = rows[u] /\ Recorded(appended[u][i]))
    /\ [](Entries = Cardinality({u \in Units : appended[u] # <<>>}))
    /\ [][IsPrefix(results.success, results.success') /\ IsPrefix(results.failed, results.failed')]_vars

\* Two rows with the same number have each their own entry.
C16_Witness ==
    /\ Returned /\ N = 3 /\ rows[1] = rows[3] /\ rows[1] # rows[2]
    /\ Len(results.success) = 3
    /\ results.success[1] = results.success[3]

\* C17 as stated: no unit has recorded its outcome while it still holds a
\* permit.
C17_ReleaseThenAppend == \A u \in Units : appended[u] # <<>> => u \notin Holding

\* C17 as amended: a unit appends its outcome while it holds its permit and
\* gives the permit back afterwards; a unit that has run to its end has
\* recorded its outcome.
C17_AppendThenRelease ==
    /\ [][\A u \in Units : appended'[u] # appended[u] =>
              (task[u] = "inflight" /\ task'[u] = "recorded" /\ semaphore' = semaphore)]_vars
    /\ [](\A u \in Units : task[u] = "done" => Len(appended[u]) = 1)

\* A unit has recorded its outcome and still holds the only permit, another
\* unit waits.
C17_Witness ==
    /\ MAX_CONCURRENT_CALLS = 1 /\ semaphore = 0
    /\ \E u \in Units : task[u] = "recorded" /\ Len(appended[u]) = 1
    /\ \E u \in Units : task[u] = "waiting"

\* C18: a unit that waits for a permit while fewer than M units hold one can
\* be admitted at once, whatever the other units in flight are doing.
C18_WorkConserving ==
    \A u \in Units :
        (task[u] = "waiting" /\ Cardinality(Holding) < MAX_CONCURRENT_CALLS) => ENABLED acquire(u)

\* One unit has finished, one is still in flight, and the third waits with a
\* permit free.
C18_Witness ==
    /\ MAX_CONCURRENT_CALLS = 2 /\ N = 3 /\ semaphore = 1
    /\ \E u \in Units : task[u] = "done"
    /\ \E u \in Units : task[u] = "inflight"
    /\ \E u \in Units : task[u] = "waiting"

\* C19 (single call): a 2xx response whose body resp.json() does not decode
\* to an object is recorded as exactly one failure with the row's phone
\* number and as no success, and the exception does not leave the unit.
C19_UndecodableBody ==
    \A u \in Units : (Responded(u) /\ Status2xx(u) /\ ~JsonObjectReply(u)) =>
        /\ results.success = <<>>
        /\ Len(results.failed) = 1
        /\ results.failed[1].phone_number = rows[u]
        /\ task[u] \in {"recorded", "done"}
        /\ pc # "error"

\* Status 200 with the text "server error" sent as application/json.
C19_Witness ==
    /\ N = 1 /\ Responded(1) /\ reply[1].status = 200
    /\ reply[1].ctype = "application/json" /\ reply[1].body.kind = "invalid"
    /\ Len(results.failed) = 1 /\ Returned

\* C20: the session is open before any task exists, every POST is sent on
\* the open session, and the session is closed only when every task has
\* finished.
C20_SessionOutlivesTasks ==
    /\ [][\A u \in Units : posts'[u] > posts[u] => (session = "open" /\ session' = "open")]_vars
    /\ [](session = "none" => \A u \in Units : task[u] = "created")
    /\ [](session = "closed" => \A u \in Units : task[u] = "done")

\* The session is closed after a batch whose first unit raised.
C20_Witness ==
    /\ session = "closed" /\ N = 3
    /\ RaisedType(1, "RuntimeError")
    /\ \A u \in Units : posts[u] = 1 /\ task[u] = "done"

====
